---- MODULE Spec2Model ----
(***************************************************************************)
(* PelotonAPI (peloton.py): a client object holding one requests.Session   *)
(* and one method per upstream operation.  The upstream server, the        *)
(* process environment and the clock are the environment of the model:     *)
(* Init draws what the server will answer, whether the credentials are     *)
(* set, and the actions are the public methods of the client.              *)
(***************************************************************************)
EXTENDS Integers, Sequences, FiniteSets, TLC

VARIABLES
    today,      \* datetime.datetime.today().date(), as days since 1970-01-01
    environ,    \* names set in os.environ
    workouts,   \* response.json()['data'] of /api/user/{id}/workouts
    gql,        \* the body the GraphQL gateway answers with, per operation
    rideDetail, \* the body of /api/ride/{id}/details
    sess,       \* self.sess
    calls,      \* invocations of public methods so far
    requests,   \* HTTP requests issued through sess so far
    call        \* the last invocation: method and outcome

vars == <<today, environ, workouts, gql, rideDetail, sess, calls, requests, call>>

----------------------------------------------------------------------------
(* Bounds of the model. *)

MaxLen == 2         \* longest workout list the server returns
MaxStack == 2       \* most classes in the user's stack
MaxCalls == 2       \* invocations in one run

----------------------------------------------------------------------------
(* Program constants. *)

WindowDays == 7
SecondsPerDay == 86400
SuccessTypename == "StackResponseSuccess"

----------------------------------------------------------------------------
(* JSON values as response.json() yields them, and Python values. *)

JNull == [t |-> "null"]
JNum(n) == [t |-> "num", n |-> n]
JStr(s) == [t |-> "str", s |-> s]
JList(q) == [t |-> "list", q |-> q]
JObj(f) == [t |-> "obj", f |-> f]

Unbound == [t |-> "unbound"]    \* a local name no assignment has reached

PyNone == [t |-> "None"]
PyBool(b) == [t |-> "bool", b |-> b]
PyStr(s) == [t |-> "str", s |-> s]
PyResponse == [t |-> "Response"]
PyJson(v) == [t |-> "json", v |-> v]
\* recent_workouts: the groups in insertion order; trace records, for each
\* append, the index of the entry it came from and the label appended.
PyDict(groups, trace) == [t |-> "dict", groups |-> groups, trace |-> trace]

Return(v) == [kind |-> "return", value |-> v, exc |-> "none", at |-> 0]
Raise(e) == [kind |-> "raise", value |-> PyNone, exc |-> e, at |-> 0]
\* an exception raised while the loop handles its i-th item
RaiseAt(e, i) == [kind |-> "raise", value |-> PyNone, exc |-> e, at |-> i]

Ok(v) == [ok |-> TRUE, v |-> v, exc |-> "none"]
Err(e) == [ok |-> FALSE, v |-> JNull, exc |-> e]

\* v[k] for a string key k
Subscript(v, k) ==
    IF v.t = "obj"
    THEN IF k \in DOMAIN v.f THEN Ok(v.f[k]) ELSE Err("KeyError")
    ELSE Err("TypeError")

\* v[ks[1]][ks[2]]...
RECURSIVE Path(_, _)
Path(v, ks) ==
    IF ks = <<>> THEN Ok(v)
    ELSE LET r == Subscript(v, Head(ks))
         IN  IF r.ok THEN Path(r.v, Tail(ks)) ELSE r

\* k in v, for a dict v
HasKey(v, k) == v.t = "obj" /\ k \in DOMAIN v.f

\* bool(v)
Truthy(v) ==
    CASE v.t = "num" -> v.n # 0
      [] v.t = "str" -> v.s # ""
      [] v.t = "list" -> v.q # <<>>
      [] v.t = "obj" -> DOMAIN v.f # {}
      [] OTHER -> FALSE

\* f"{v}"
Format(v) ==
    CASE v.t = "num" -> ToString(v.n)
      [] v.t = "str" -> v.s
      [] OTHER -> "None"

----------------------------------------------------------------------------
(* Calendar dates. *)

Pad2(n) == IF n < 10 THEN "0" \o ToString(n) ELSE ToString(n)

\* str(date): the ISO form of the day z days after 1970-01-01
DateStr(z) ==
    LET zz == z + 719468
        era == zz \div 146097
        doe == zz - era * 146097
        yoe == (doe - doe \div 1460 + doe \div 36524 - doe \div 146096) \div 365
        doy == doe - (365 * yoe + yoe \div 4 - yoe \div 100)
        mp == (5 * doy + 2) \div 153
        d == doy - (153 * mp + 2) \div 5 + 1
        m == IF mp < 10 THEN mp + 3 ELSE mp - 9
        y == yoe + era * 400 + (IF m <= 2 THEN 1 ELSE 0)
    IN  ToString(y) \o "-" \o Pad2(m) \o "-" \o Pad2(d)

\* datetime.datetime.fromtimestamp(ts).date()
DateOf(ts) == ts \div SecondsPerDay

----------------------------------------------------------------------------
(* get_user_workouts: the loop over response.json()['data']. *)

\* Mutant of TooOld: the window is one day too long.
TooOldOffByOne(now, workoutDate) == now - workoutDate > WindowDays + 1

\* Mutant of TooOld: the dates are subtracted the wrong way round.
TooOldSwapped(now, workoutDate) == workoutDate - now > WindowDays

\* (today - workout_date).days > 7
TooOld(now, workoutDate) == now - workoutDate > WindowDays

\* The title and the difficulty the branches of the loop body bind; the
\* difficulty of an entry with neither key is what the name held before.
Bind(w, difficulty) ==
    IF HasKey(w, "ride")
    THEN LET title == Path(w, <<"ride", "title">>)
             rating == Path(w, <<"ride", "difficulty_rating_avg">>)
         IN  IF ~title.ok THEN title
             ELSE IF rating.ok THEN Ok([title |-> title.v, difficulty |-> rating.v])
             ELSE IF rating.exc = "KeyError"
                  THEN Ok([title |-> title.v, difficulty |-> JNull])
             ELSE rating
    ELSE IF HasKey(w, "peloton")
    THEN LET title == Path(w, <<"peloton", "ride", "title">>)
             rating == Path(w, <<"peloton", "ride", "difficulty_rating_avg">>)
         IN  IF ~title.ok THEN title
             ELSE IF rating.ok THEN Ok([title |-> title.v, difficulty |-> rating.v])
             ELSE rating
    ELSE Ok([title |-> JStr("Unknown"), difficulty |-> difficulty])

Label(workoutDate, title, difficulty) ==
    IF Truthy(difficulty)
    THEN DateStr(workoutDate) \o ": " \o Format(title)
             \o " (Difficulty: " \o Format(difficulty) \o "))"
    ELSE DateStr(workoutDate) \o ": " \o Format(title)

\* recent_workouts[key].append(lbl) on a defaultdict(list)
DictAppend(groups, key, lbl) ==
    IF \E j \in 1..Len(groups) : groups[j].key = key
    THEN [j \in 1..Len(groups) |->
            IF groups[j].key = key
            THEN [key |-> key, labels |-> Append(groups[j].labels, lbl)]
            ELSE groups[j]]
    ELSE Append(groups, [key |-> key, labels |-> <<lbl>>])

RECURSIVE Scan(_, _, _, _, _, _)
Scan(now, ws, i, difficulty, groups, trace) ==
    IF i > Len(ws) THEN Return(PyDict(groups, trace))
    ELSE
      LET created == Subscript(ws[i], "created_at")
          workoutDate == DateOf(created.v.n)
          b == Bind(ws[i], difficulty)
      IN  IF ~created.ok THEN RaiseAt(created.exc, i)
          ELSE IF TooOld(now, workoutDate) THEN Return(PyDict(groups, trace))
          ELSE IF ~b.ok THEN RaiseAt(b.exc, i)
          ELSE IF b.v.difficulty = Unbound THEN RaiseAt("UnboundLocalError", i)
          ELSE LET lbl == Label(workoutDate, b.v.title, b.v.difficulty)
               IN  Scan(now, ws, i + 1, b.v.difficulty,
                        DictAppend(groups, DateStr(workoutDate), lbl),
                        Append(trace, [idx |-> i, lbl |-> lbl]))

GetUserWorkoutsResult(now, ws) == Scan(now, ws, 1, Unbound, <<>>, <<>>)

----------------------------------------------------------------------------
(* The requests the methods send.  Every method result below is          *)
(* [sent, outcome]: the requests issued through the session, in order,   *)
(* and how the invocation ended.                                          *)

PELOTON_API_ROOT == "https://api.onepeloton.com"
PELOTON_GRAPHQL_ROOT == "https://gql-graphql-gateway.prod.k8s.onepeloton.com/graphql"

Request(s, verb, url) == [sess |-> s, verb |-> verb, url |-> url]

Result(sent, outcome) == [sent |-> sent, outcome |-> outcome]

AuthenticateCall(s, env) ==
    IF "PELOTON_USER" \notin env \/ "PELOTON_PASS" \notin env
    THEN Result(<<>>, Raise("KeyError"))
    ELSE Result(<<Request(s, "POST", PELOTON_API_ROOT \o "/auth/login")>>,
                Return(PyResponse))

GetRecentClassesCall(s, body) ==
    Result(<<Request(s, "GET", PELOTON_API_ROOT \o "/api/v2/ride/archived")>>,
           Return(PyJson(body)))

GetUserWorkoutsCall(s, now, ws) ==
    Result(<<Request(s, "GET", PELOTON_API_ROOT \o "/api/user/{user_id}/workouts")>>,
           GetUserWorkoutsResult(now, ws))

ConvertRideResult(body) ==
    LET token == Path(body, <<"ride", "join_tokens", "on_demand">>)
    IN  IF token.ok THEN Return(PyJson(token.v)) ELSE Raise(token.exc)

ConvertRideToClassIdCall(s, body) ==
    Result(<<Request(s, "GET", PELOTON_API_ROOT \o "/api/ride/{ride_id}/details")>>,
           ConvertRideResult(body))

FavoriteCall(s) ==
    Result(<<Request(s, "POST", PELOTON_API_ROOT \o "/api/favorites/create")>>,
           Return(PyResponse))

CategoriesCall(s, body) ==
    Result(<<Request(s, "GET", PELOTON_API_ROOT
                              \o "/api/browse_categories?library_type=on_demand")>>,
           Return(PyJson(body)))

\* for cl in v: a list yields its items; a dict yields its keys and a str its
\* characters, which are strs (one stands for them all here); None and
\* numbers are not iterable
Iterable(v) == v.t \in {"list", "obj", "str"}
Items(v) ==
    CASE v.t = "list" -> v.q
      [] v.t = "obj" -> IF DOMAIN v.f = {} THEN <<>> ELSE <<JStr(CHOOSE k \in DOMAIN v.f : TRUE)>>
      [] v.t = "str" -> IF v.s = "" THEN <<>> ELSE <<JStr(v.s)>>
      [] OTHER -> <<>>

\* classes_in_stack after the loop, or the exception the loop ends with
RECURSIVE Titles(_, _, _)
Titles(q, i, acc) ==
    IF i > Len(q) THEN Ok(acc)
    ELSE LET title == Path(q[i], <<"pelotonClass", "title">>)
         IN  IF title.ok THEN Titles(q, i + 1, Append(acc, title.v)) ELSE title

\* Mutant of Join: the separator ends every item instead of joining them.
RECURSIVE JoinTerminated(_, _)
JoinTerminated(sep, items) ==
    IF items = <<>> THEN ""
    ELSE items[1].s \o sep \o JoinTerminated(sep, Tail(items))

\* sep.join(items), items a list of str
RECURSIVE Join(_, _)
Join(sep, items) ==
    IF items = <<>> THEN ""
    ELSE IF Len(items) = 1 THEN items[1].s
    ELSE items[1].s \o sep \o Join(sep, Tail(items))

\* Mutant of GetStackResult: a failure variant reads as an empty stack.
GetStackResultEmptyOnFailure(response) ==
    LET typename == Path(response, <<"data", "viewUserStack", "__typename">>)
        list == Path(response, <<"data", "viewUserStack", "userStack", "stackedClassList">>)
        titles == Titles(Items(list.v), 1, <<>>)
    IN  IF ~typename.ok THEN Raise(typename.exc)
        ELSE IF typename.v # JStr(SuccessTypename) THEN Return(PyStr(""))
        ELSE IF ~list.ok THEN Raise(list.exc)
        ELSE IF ~Iterable(list.v) THEN Raise("TypeError")
        ELSE IF ~titles.ok THEN Raise(titles.exc)
        ELSE IF \E j \in 1..Len(titles.v) : titles.v[j].t # "str" THEN Raise("TypeError")
        ELSE Return(PyStr(Join("\n", titles.v)))

GetStackResult(response) ==
    LET typename == Path(response, <<"data", "viewUserStack", "__typename">>)
        list == Path(response, <<"data", "viewUserStack", "userStack", "stackedClassList">>)
        titles == Titles(Items(list.v), 1, <<>>)
    IN  IF ~typename.ok THEN Raise(typename.exc)
        ELSE IF typename.v # JStr(SuccessTypename) THEN Return(PyNone)
        ELSE IF ~list.ok THEN Raise(list.exc)
        ELSE IF ~Iterable(list.v) THEN Raise("TypeError")
        ELSE IF ~titles.ok THEN Raise(titles.exc)
        ELSE IF \E j \in 1..Len(titles.v) : titles.v[j].t # "str" THEN Raise("TypeError")
        ELSE Return(PyStr(Join("\n", titles.v)))

GetStackCall(s, response) ==
    Result(<<Request(s, "POST", PELOTON_GRAPHQL_ROOT)>>, GetStackResult(response))

ClearStackResult(response) ==
    LET typename == Path(response, <<"data", "modifyStack", "__typename">>)
    IN  IF ~typename.ok
        THEN IF typename.exc = "KeyError" THEN Return(PyBool(FALSE))
             ELSE Raise(typename.exc)
        ELSE IF typename.v # JStr(SuccessTypename) THEN Return(PyBool(FALSE))
        ELSE Return(PyBool(TRUE))

\* Mutant of ClearStackCall: the mutation is posted again when it did not
\* succeed.
ClearStackCallRetry(s, response) ==
    IF ClearStackResult(response) = Return(PyBool(TRUE))
    THEN Result(<<Request(s, "POST", PELOTON_GRAPHQL_ROOT)>>, ClearStackResult(response))
    ELSE Result(<<Request(s, "POST", PELOTON_GRAPHQL_ROOT),
                  Request(s, "POST", PELOTON_GRAPHQL_ROOT)>>,
                ClearStackResult(response))

ClearStackCall(s, response) ==
    Result(<<Request(s, "POST", PELOTON_GRAPHQL_ROOT)>>, ClearStackResult(response))

\* Mutant of StackClassResult: the lookup is wrapped as in clear_stack.
StackClassResultCaught(response) ==
    LET typename == Path(response, <<"data", "addClassToStack", "__typename">>)
    IN  IF ~typename.ok
        THEN IF typename.exc = "KeyError" THEN Return(PyBool(FALSE))
             ELSE Raise(typename.exc)
        ELSE IF typename.v # JStr(SuccessTypename) THEN Return(PyBool(FALSE))
        ELSE Return(PyBool(TRUE))

StackClassResult(response) ==
    LET typename == Path(response, <<"data", "addClassToStack", "__typename">>)
    IN  IF ~typename.ok THEN Raise(typename.exc)
        ELSE IF typename.v # JStr(SuccessTypename) THEN Return(PyBool(FALSE))
        ELSE Return(PyBool(TRUE))

StackClassCall(s, response) ==
    Result(<<Request(s, "POST", PELOTON_GRAPHQL_ROOT)>>, StackClassResult(response))

----------------------------------------------------------------------------
(* What the environment can be: the clock, the credentials, and the      *)
(* bodies the server answers with.                                        *)

Todays == {19480}                   \* 2023-05-03
Ages == {-1, 0, 7, 8}               \* days between an entry's date and today
TimesOfDay == {3600}                \* seconds into the day of an entry

Ratings == {JNull, JNum(0), JNum(5)}

RideDicts ==
    {JObj([title |-> JStr("Power Zone")])}
    \cup {JObj([title |-> JStr("Power Zone"), difficulty_rating_avg |-> r]) : r \in Ratings}

Entries(now) ==
    LET stamps == {JNum((now - a) * SecondsPerDay + t) : a \in Ages, t \in TimesOfDay}
    IN  {JObj([created_at |-> c]) : c \in stamps}
        \cup {JObj([created_at |-> c, ride |-> r]) : c \in stamps, r \in RideDicts}
        \cup {JObj([created_at |-> c, peloton |-> JObj([ride |-> r])]) :
                 c \in stamps, r \in RideDicts}

SeqsUpTo(S, n) == UNION {[1..k -> S] : k \in 0..n}

DefaultWorkouts(now) ==
    <<JObj([created_at |-> JNum(now * SecondsPerDay),
            ride |-> JObj([title |-> JStr("Power Zone")])])>>

StackedClasses ==
    {JObj([pelotonClass |-> JObj([title |-> JStr(t)])]) : t \in {"A", "B"}}
    \cup {JObj([playOrder |-> JNum(1)]),
          JObj([pelotonClass |-> JObj([classId |-> JStr("c1")])])}

UserStacks ==
    {JNull, JObj([numClasses |-> JNum(0)])}
    \cup {JObj([stackedClassList |-> JList(q)]) : q \in SeqsUpTo(StackedClasses, MaxStack)}

Typenames == {JNull, JStr(SuccessTypename), JStr("StackResponseError")}

\* the values of response['data'][root]
Unions ==
    {JNull, JObj([numClasses |-> JNum(0)])}
    \cup {JObj([__typename |-> n]) : n \in Typenames}
    \cup {JObj([__typename |-> n, userStack |-> u]) : n \in Typenames, u \in UserStacks}

Operations == {"viewUserStack", "modifyStack", "addClassToStack"}

\* one server answer, given under the root key of each operation
GqlAnswers ==
    {[root \in Operations |-> JObj([data |-> JObj([r \in {root} |-> u])])] : u \in Unions}
    \cup {[root \in Operations |-> b] :
             b \in {JObj([errors |-> JList(<<>>)]),
                    JObj([data |-> JNull]),
                    JObj([data |-> JObj([errors |-> JList(<<>>)])])}}

DefaultGql ==
    [root \in Operations |->
        JObj([data |-> JObj([r \in {root} |->
            JObj([__typename |-> JStr(SuccessTypename),
                  userStack |-> JObj([stackedClassList |-> JList(<<
                      JObj([pelotonClass |-> JObj([title |-> JStr("A")])]),
                      JObj([pelotonClass |-> JObj([title |-> JStr("B")])])>>)])])])])]

RideDetails ==
    {JObj([ride |-> JObj([join_tokens |-> JObj([on_demand |-> JStr("tok")])])]),
     JObj([ride |-> JObj([join_tokens |-> JObj([live |-> JStr("tok")])])]),
     JObj([ride |-> JObj([title |-> JStr("Power Zone")])]),
     JObj([status |-> JNum(404)]),
     JObj([ride |-> JNull])}

DefaultRideDetail ==
    JObj([ride |-> JObj([join_tokens |-> JObj([on_demand |-> JStr("tok")])])])

Credentials == {"PELOTON_USER", "PELOTON_PASS"}

NoCall == [method |-> "none", sent |-> <<>>, outcome |-> Return(PyNone)]

----------------------------------------------------------------------------
(* The state machine. *)

\* __init__, in an environment that varies in one respect
Init ==
    /\ today \in Todays
    /\ sess = 1
    /\ calls = 0
    /\ requests = 0
    /\ call = NoCall
    /\ \/ /\ workouts \in SeqsUpTo(Entries(today), MaxLen)
          /\ gql = DefaultGql
          /\ rideDetail = DefaultRideDetail
          /\ environ = Credentials
       \/ /\ workouts = DefaultWorkouts(today)
          /\ gql \in GqlAnswers
          /\ rideDetail = DefaultRideDetail
          /\ environ = Credentials
       \/ /\ workouts = DefaultWorkouts(today)
          /\ gql = DefaultGql
          /\ rideDetail \in RideDetails
          /\ environ \in SUBSET Credentials

\* one invocation of a public method, whose result is r
Invoke(method, r) ==
    /\ calls < MaxCalls
    /\ calls' = calls + 1
    /\ requests' = requests + Len(r.sent)
    /\ call' = [method |-> method, sent |-> r.sent, outcome |-> r.outcome]
    /\ UNCHANGED <<today, environ, workouts, gql, rideDetail, sess>>

authenticate == Invoke("authenticate", AuthenticateCall(sess, environ))

get_recent_classes ==
    Invoke("get_recent_classes", GetRecentClassesCall(sess, JObj([data |-> JList(<<>>)])))

get_user_workouts ==
    Invoke("get_user_workouts", GetUserWorkoutsCall(sess, today, workouts))

convert_ride_to_class_id ==
    Invoke("convert_ride_to_class_id", ConvertRideToClassIdCall(sess, rideDetail))

favorite == Invoke("favorite", FavoriteCall(sess))

categories ==
    Invoke("categories", CategoriesCall(sess, JObj([browse_categories |-> JList(<<>>)])))

get_stack == Invoke("get_stack", GetStackCall(sess, gql["viewUserStack"]))

clear_stack == Invoke("clear_stack", ClearStackCall(sess, gql["modifyStack"]))

stack_class == Invoke("stack_class", StackClassCall(sess, gql["addClassToStack"]))

Next ==
    \/ authenticate
    \/ get_recent_classes
    \/ get_user_workouts
    \/ convert_ride_to_class_id
    \/ favorite
    \/ categories
    \/ get_stack
    \/ clear_stack
    \/ stack_class

Spec == Init /\ [][Next]_vars

----------------------------------------------------------------------------
(* What the claims speak of, stated on the server's answer itself. *)

WorkoutsCalled == call.method = "get_user_workouts"
Returned == call.outcome.kind = "return"
RaisedAt(i) == call.outcome.kind = "raise" /\ call.outcome.at = i

EntryDate(w) == w.f.created_at.n \div 86400
Age(w) == today - EntryDate(w)
EntryKey(w) == DateStr(EntryDate(w))

HasRide(w) == "ride" \in DOMAIN w.f
HasPelotonRide(w) == "ride" \notin DOMAIN w.f /\ "peloton" \in DOMAIN w.f
HasNeither(w) == "ride" \notin DOMAIN w.f /\ "peloton" \notin DOMAIN w.f
RideOf(w) == IF HasRide(w) THEN w.f.ride ELSE w.f.peloton.f.ride
Rated(w) ==
    /\ "difficulty_rating_avg" \in DOMAIN RideOf(w).f
    /\ RideOf(w).f.difficulty_rating_avg.t = "num"
    /\ RideOf(w).f.difficulty_rating_avg.n # 0

SortedNewestFirst ==
    \A i, j \in 1..Len(workouts) :
        i < j => workouts[i].f.created_at.n >= workouts[j].f.created_at.n

\* the length of the longest leading run of entries no older than 7 days
LeadingRun ==
    CHOOSE n \in 0..Len(workouts) :
        /\ \A i \in 1..n : Age(workouts[i]) <= 7
        /\ n < Len(workouts) => Age(workouts[n + 1]) > 7

\* the labels appended for the entries whose date string is key, in order
RECURSIVE LabelsUnder(_, _)
LabelsUnder(trace, key) ==
    IF trace = <<>> THEN <<>>
    ELSE IF EntryKey(workouts[Head(trace).idx]) = key
         THEN <<Head(trace).lbl>> \o LabelsUnder(Tail(trace), key)
         ELSE LabelsUnder(Tail(trace), key)

FirstUnder(trace, key) ==
    CHOOSE i \in 1..Len(trace) :
        /\ EntryKey(workouts[trace[i].idx]) = key
        /\ \A j \in 1..(i - 1) : EntryKey(workouts[trace[j].idx]) # key

\* the returned mapping holds one label for each of the first LeadingRun
\* entries and nothing else, each under its own date string, the keys in
\* first-encounter order and the labels of a key in server order
GroupedLeadingRun ==
    LET groups == call.outcome.value.groups
        trace == call.outcome.value.trace
    IN  /\ call.outcome.value.t = "dict"
        /\ Len(trace) = LeadingRun
        /\ \A i \in 1..Len(trace) : trace[i].idx = i
        /\ \A i \in 1..Len(trace) :
              \E j \in 1..Len(groups) : groups[j].key = EntryKey(workouts[i])
        /\ \A j \in 1..Len(groups) :
              /\ groups[j].labels # <<>>
              /\ groups[j].labels = LabelsUnder(trace, groups[j].key)
        /\ \A j, k \in 1..Len(groups) :
              j < k => FirstUnder(trace, groups[j].key) < FirstUnder(trace, groups[k].key)

\* C1: given a server list sorted newest-first, get_user_workouts returns
\* exactly the labels of the longest leading run of in-window entries: one
\* label per scanned entry under its own date string, nothing at or after the
\* first entry older than 7 days, keys in first-encounter order, labels of a
\* key in server order.
C1_ReturnsLeadingRun ==
    (WorkoutsCalled /\ SortedNewestFirst) => (Returned /\ GroupedLeadingRun)

\* Whenever get_user_workouts does return, in any order of the list, what it
\* returns is the grouped leading run: C1 fails only where the call raises.
ReturnedIsLeadingRun ==
    (WorkoutsCalled /\ Returned) => GroupedLeadingRun

\* C2: for every server list, in any order, every label of the returned
\* mapping comes from an entry whose date d satisfies (today - d) <= 7 days.
C2_NoLabelOlderThanWindow ==
    (WorkoutsCalled /\ Returned) =>
        LET groups == call.outcome.value.groups
            trace == call.outcome.value.trace
        IN  /\ \A i \in 1..Len(trace) : Age(workouts[trace[i].idx]) <= 7
            /\ \A j \in 1..Len(groups) :
                  \A k \in 1..Len(groups[j].labels) :
                      \E i \in 1..Len(trace) :
                          /\ trace[i].lbl = groups[j].labels[k]
                          /\ EntryKey(workouts[trace[i].idx]) = groups[j].key

\* C2's case: a list that holds an entry older than 7 days, and a call that
\* returned a label all the same.
C2_Witness ==
    /\ WorkoutsCalled /\ Returned
    /\ \E i \in 1..Len(workouts) : Age(workouts[i]) > 7
    /\ call.outcome.value.trace # <<>>

\* C3: an entry with neither a ride nor a peloton key gets the label
\* "{date}: Unknown" with no difficulty suffix, whatever precedes it, and the
\* call does not fail on it.
C3_UnknownLabel ==
    WorkoutsCalled =>
        \A i \in 1..Len(workouts) :
            HasNeither(workouts[i]) =>
                /\ ~RaisedAt(i)
                /\ (Returned /\ i <= Len(call.outcome.value.trace)) =>
                      call.outcome.value.trace[i].lbl
                          = EntryKey(workouts[i]) \o ": Unknown"

\* the label C4 gives an entry that carries a ride structure
ClaimedLabel(w) ==
    IF Rated(w)
    THEN EntryKey(w) \o ": " \o RideOf(w).f.title.s \o " (Difficulty: "
             \o ToString(RideOf(w).f.difficulty_rating_avg.n) \o "))"
    ELSE EntryKey(w) \o ": " \o RideOf(w).f.title.s

\* C4: for every in-window entry carrying a ride or a peloton.ride structure
\* with a title, the label has the "(Difficulty: ...))" suffix if and only if
\* the rating is present and truthy; with the rating absent, null or zero the
\* label is "{date}: {title}" and the call still succeeds, for both shapes.
C4_SuffixIffRated ==
    WorkoutsCalled =>
        \A i \in 1..Len(workouts) :
            (HasRide(workouts[i]) \/ HasPelotonRide(workouts[i])) =>
                /\ ~RaisedAt(i)
                /\ (Returned /\ i <= Len(call.outcome.value.trace)) =>
                      call.outcome.value.trace[i].lbl = ClaimedLabel(workouts[i])

\* The ride shape alone behaves as C4 says.
RideShapeSuffixIffRated ==
    WorkoutsCalled =>
        \A i \in 1..Len(workouts) :
            HasRide(workouts[i]) =>
                /\ ~RaisedAt(i)
                /\ (Returned /\ i <= Len(call.outcome.value.trace)) =>
                      call.outcome.value.trace[i].lbl = ClaimedLabel(workouts[i])

ReturnedKeys ==
    {call.outcome.value.groups[j].key : j \in 1..Len(call.outcome.value.groups)}

NoFutureEntry == \A i \in 1..Len(workouts) : Age(workouts[i]) >= 0

\* C5, as claimed, for responses with no entry dated after today: the date
\* keys are all among the 7 calendar dates ending today, so there are never
\* more than 7 of them.
C5_SevenDatesEndingToday ==
    (WorkoutsCalled /\ Returned /\ NoFutureEntry) =>
        /\ ReturnedKeys \subseteq {DateStr(today - k) : k \in 0..6}
        /\ Cardinality(ReturnedKeys) <= 7

\* C5, amended: every date key is the date of an entry no more than 7 days
\* before today; the keys not after today are among the 8 calendar dates
\* ending today (today and the 7 days before it), so there are never more
\* than 8 of those.
C5_EightDatesEndingToday ==
    (WorkoutsCalled /\ Returned) =>
        /\ \A key \in ReturnedKeys :
              \E i \in 1..Len(workouts) :
                  key = EntryKey(workouts[i]) /\ EntryDate(workouts[i]) >= today - 7
        /\ LET past == {EntryKey(workouts[i]) :
                           i \in {k \in 1..Len(workouts) : Age(workouts[k]) >= 0}}
           IN  /\ ReturnedKeys \cap past \subseteq {DateStr(today - k) : k \in 0..7}
               /\ Cardinality(ReturnedKeys \cap past) <= 8

\* C5's case: the returned mapping has a key for the day 7 days before
\* today, the eighth date of the window.
C5_Witness ==
    /\ WorkoutsCalled /\ Returned
    /\ DateStr(today - 7) \in ReturnedKeys

----------------------------------------------------------------------------
(* The GraphQL claims. *)

Called(method) == call.method = method

\* the body lacks a key on the path ks: some object reached along the path
\* has no entry for the next key
RECURSIVE MissingKey(_, _)
MissingKey(v, ks) ==
    /\ ks # <<>>
    /\ v.t = "obj"
    /\ \/ Head(ks) \notin DOMAIN v.f
       \/ MissingKey(v.f[Head(ks)], Tail(ks))

\* the body has a null where the path ks needs an object
RECURSIVE NullOnPath(_, _)
NullOnPath(v, ks) ==
    /\ ks # <<>>
    /\ \/ v.t = "null"
       \/ /\ v.t = "obj"
          /\ Head(ks) \in DOMAIN v.f
          /\ NullOnPath(v.f[Head(ks)], Tail(ks))

\* the response carries a typed-union discriminator under root
HasTypename(root) ==
    /\ ~MissingKey(gql[root], <<"data", root, "__typename">>)
    /\ ~NullOnPath(gql[root], <<"data", root, "__typename">>)

Typename(root) == gql[root].f.data.f[root].f.__typename
Succeeded(root) == HasTypename(root) /\ Typename(root) = JStr("StackResponseSuccess")
Failed(root) == HasTypename(root) /\ Typename(root) # JStr("StackResponseSuccess")

StackList == gql["viewUserStack"].f.data.f.viewUserStack.f.userStack.f.stackedClassList.q

\* the success variant carries its stacked-class list, every entry of it
\* with a titled class
WellFormedStack ==
    /\ Succeeded("viewUserStack")
    /\ ~MissingKey(gql["viewUserStack"], <<"data", "viewUserStack", "userStack", "stackedClassList">>)
    /\ ~NullOnPath(gql["viewUserStack"], <<"data", "viewUserStack", "userStack", "stackedClassList">>)
    /\ gql["viewUserStack"].f.data.f.viewUserStack.f.userStack.f.stackedClassList.t = "list"
    /\ \A i \in 1..Len(StackList) :
          /\ ~MissingKey(StackList[i], <<"pelotonClass", "title">>)
          /\ StackList[i].f.pelotonClass.f.title.t = "str"

\* C6, as claimed: a discriminator other than StackResponseSuccess makes
\* get_stack return None and clear_stack and stack_class return False; the
\* discriminator StackResponseSuccess makes clear_stack and stack_class return
\* True and get_stack return a string.
C6_DiscriminatorDecides ==
    /\ (Called("get_stack") /\ Failed("viewUserStack")) => call.outcome = Return(PyNone)
    /\ (Called("clear_stack") /\ Failed("modifyStack")) => call.outcome = Return(PyBool(FALSE))
    /\ (Called("stack_class") /\ Failed("addClassToStack")) => call.outcome = Return(PyBool(FALSE))
    /\ (Called("clear_stack") /\ Succeeded("modifyStack")) => call.outcome = Return(PyBool(TRUE))
    /\ (Called("stack_class") /\ Succeeded("addClassToStack")) => call.outcome = Return(PyBool(TRUE))
    /\ (Called("get_stack") /\ Succeeded("viewUserStack")) =>
          (Returned /\ call.outcome.value.t = "str")

\* C6, amended: as claimed, but under StackResponseSuccess get_stack returns
\* a string whenever the response carries the stacked-class list with a
\* titled class in every entry; whatever else the success variant carries,
\* get_stack never returns None (it returns a string or it raises).
C6_DiscriminatorDecidesWellFormed ==
    /\ (Called("get_stack") /\ Failed("viewUserStack")) => call.outcome = Return(PyNone)
    /\ (Called("clear_stack") /\ Failed("modifyStack")) => call.outcome = Return(PyBool(FALSE))
    /\ (Called("stack_class") /\ Failed("addClassToStack")) => call.outcome = Return(PyBool(FALSE))
    /\ (Called("clear_stack") /\ Succeeded("modifyStack")) => call.outcome = Return(PyBool(TRUE))
    /\ (Called("stack_class") /\ Succeeded("addClassToStack")) => call.outcome = Return(PyBool(TRUE))
    /\ (Called("get_stack") /\ Succeeded("viewUserStack")) =>
          /\ WellFormedStack => Returned
          /\ Returned => call.outcome.value.t = "str"

\* C6's case: get_stack answered with the success variant and an empty
\* stack, returning the empty string and not None.
C6_Witness ==
    /\ Called("get_stack")
    /\ WellFormedStack
    /\ StackList = <<>>
    /\ call.outcome = Return(PyStr(""))

\* C7: clear_stack returns False and never raises whenever the body lacks
\* one of the nested fields data -> modifyStack -> __typename: a key missing
\* at any of the three levels, or a null where an object is needed.
C7_ClearStackFalseOnMalformed ==
    (Called("clear_stack") /\ ~HasTypename("modifyStack")) =>
        call.outcome = Return(PyBool(FALSE))

\* With a key missing (and no null on the path) clear_stack does return False.
ClearStackFalseOnMissingKey ==
    (Called("clear_stack") /\ MissingKey(gql["modifyStack"], <<"data", "modifyStack", "__typename">>)) =>
        call.outcome = Return(PyBool(FALSE))

\* the titles of the stacked classes from the i-th on, one per line
RECURSIVE Lines(_)
Lines(i) ==
    IF i > Len(StackList) THEN ""
    ELSE IF i = Len(StackList) THEN StackList[i].f.pelotonClass.f.title.s
    ELSE StackList[i].f.pelotonClass.f.title.s \o "\n" \o Lines(i + 1)

\* C8: under a success discriminator get_stack returns the titles of all
\* stacked classes, one per class, in server order, joined by single
\* newlines with none leading or trailing; an empty stack yields "".
C8_TitlesJoinedInOrder ==
    (Called("get_stack") /\ WellFormedStack) => call.outcome = Return(PyStr(Lines(1)))

\* C8's case: the stack [A, B] read back as "A\nB".
C8_Witness ==
    /\ Called("get_stack")
    /\ WellFormedStack
    /\ Len(StackList) = 2
    /\ StackList[1] # StackList[2]
    /\ call.outcome = Return(PyStr("A\nB"))

\* C9, as claimed: every invocation of a public method issues exactly one
\* HTTP request, through the session created at construction, which is
\* never replaced.
C9_ExactlyOneRequest ==
    /\ sess = 1
    /\ requests = calls
    /\ call.method # "none" => (Len(call.sent) = 1 /\ call.sent[1].sess = 1)

\* C9, amended: every invocation issues at most one HTTP request, always
\* through the session created at construction, and exactly one unless it is
\* authenticate finding a credential variable unset, which raises before
\* anything is sent.
C9_OneRequestUnlessNoCredentials ==
    /\ sess = 1
    /\ requests <= calls
    /\ environ = {"PELOTON_USER", "PELOTON_PASS"} => requests = calls
    /\ call.method # "none" =>
          \/ Len(call.sent) = 1 /\ call.sent[1].sess = 1
          \/ /\ call.method = "authenticate"
             /\ environ # {"PELOTON_USER", "PELOTON_PASS"}
             /\ call.sent = <<>>
             /\ call.outcome = Raise("KeyError")

\* C9's case: two invocations, the last one answered with a failure
\* discriminator, and two requests in all.
C9_Witness ==
    /\ calls = 2
    /\ requests = 2
    /\ Called("clear_stack")
    /\ Failed("modifyStack")

\* an entry of the stacked-class list lacks pelotonClass or its title
StackEntryMissingKey ==
    /\ Succeeded("viewUserStack")
    /\ ~MissingKey(gql["viewUserStack"], <<"data", "viewUserStack", "userStack", "stackedClassList">>)
    /\ ~NullOnPath(gql["viewUserStack"], <<"data", "viewUserStack", "userStack", "stackedClassList">>)
    /\ gql["viewUserStack"].f.data.f.viewUserStack.f.userStack.f.stackedClassList.t = "list"
    /\ \E i \in 1..Len(StackList) : MissingKey(StackList[i], <<"pelotonClass", "title">>)

\* C10: a response lacking an expected nested key makes get_stack,
\* stack_class and convert_ride_to_class_id fail with a lookup error, never
\* return None, False or a token; only clear_stack turns it into a value.
C10_MissingKeyPropagates ==
    /\ (Called("stack_class")
          /\ MissingKey(gql["addClassToStack"], <<"data", "addClassToStack", "__typename">>))
          => call.outcome = Raise("KeyError")
    /\ (Called("convert_ride_to_class_id")
          /\ MissingKey(rideDetail, <<"ride", "join_tokens", "on_demand">>))
          => call.outcome = Raise("KeyError")
    /\ (Called("get_stack")
          /\ MissingKey(gql["viewUserStack"], <<"data", "viewUserStack", "__typename">>))
          => call.outcome = Raise("KeyError")
    /\ (Called("get_stack") /\ Succeeded("viewUserStack")
          /\ MissingKey(gql["viewUserStack"],
                        <<"data", "viewUserStack", "userStack", "stackedClassList">>))
          => call.outcome = Raise("KeyError")
    /\ (Called("get_stack") /\ StackEntryMissingKey) => call.outcome = Raise("KeyError")
    /\ (Called("clear_stack")
          /\ MissingKey(gql["modifyStack"], <<"data", "modifyStack", "__typename">>))
          => call.outcome.kind = "return"

\* C10's case: get_stack under a success discriminator whose payload lacks
\* userStack, ended by the KeyError.
C10_Witness ==
    /\ Called("get_stack")
    /\ Succeeded("viewUserStack")
    /\ "userStack" \notin DOMAIN gql["viewUserStack"].f.data.f.viewUserStack.f
    /\ call.outcome = Raise("KeyError")

====
